---------------------------- MODULE Spec2Model ----------------------------
(***************************************************************************)
(* Three MCP servers (Google Maps directions, Navitime transit, Google     *)
(* Places) modelled as request handlers over one HTTP client each.         *)
(*                                                                         *)
(* JavaScript values are records with a "tag" field.  A JavaScript string  *)
(* is Str(s) where s is a sequence of text chunks; the character '+' is    *)
(* always a chunk of its own, so that String.prototype.includes('+') is a  *)
(* membership test.  An object is Obj(f) where f is a record of its        *)
(* fields; a field that holds Undefined is an absent field (a property read *)
(* of an absent field yields undefined, and JSON cannot carry undefined).  *)
(*                                                                         *)
(* A request is what the SDK hands to the handler registered with          *)
(* setRequestHandler; an outcome is what the handler returns or throws.    *)
(* The three servers are separate processes without shared state, so one   *)
(* request at a time is drawn for any of them in Spec.  SpecSession follows *)
(* one process over a sequence of requests, and SpecPipeline one process    *)
(* with several calls in flight and the interrupt signal.                   *)
(***************************************************************************)
EXTENDS Integers, Sequences, FiniteSets, TLC

VARIABLES
    API_KEY,   \* process.env.<...>_API_KEY, read once at startup
    pc,        \* "idle" | "awaiting" (suspended in axiosInstance.get) | "done"
    req,       \* the request being handled
    http,      \* the GET requests issued for the current request
    upstream,  \* what the upstream answered to the GET
    outcome,   \* what the handler returned or threw
    nv,        \* the pure-function harness: input, stage and results
    axiosInstance, \* the axios.create(...) configuration of each server
    process,   \* one server process: its state, transport and exit code
    calls,     \* the calls of one process that are in flight together
    past       \* the requests one process has served so far

\* the state of one server process over many requests
session == <<axiosInstance, process, calls, past>>

vars == <<API_KEY, pc, req, http, upstream, outcome, nv, session>>

----------------------------------------------------------------------------
(* JavaScript values.  Code that may throw yields Ok(value) or Throw(name).  *)

Undefined == [tag |-> "undefined"]
Null == [tag |-> "null"]
Num(n) == [tag |-> "number", n |-> n]
Str(s) == [tag |-> "string", v |-> s]
Bool(b) == [tag |-> "boolean", b |-> b]
Arr(e) == [tag |-> "array", e |-> e]
Obj(f) == [tag |-> "object", f |-> f]

\* typeof v
TypeOf(v) ==
    CASE v.tag = "undefined" -> "undefined"
      [] v.tag = "number" -> "number"
      [] v.tag = "string" -> "string"
      [] v.tag = "boolean" -> "boolean"
      [] OTHER -> "object"

\* ToBoolean(v), as used by ||, && and the conditional operator
Truthy(v) ==
    CASE v.tag = "undefined" -> FALSE
      [] v.tag = "null" -> FALSE
      [] v.tag = "number" -> v.n # 0
      [] v.tag = "string" -> v.v # <<>>
      [] v.tag = "boolean" -> v.b
      [] OTHER -> TRUE

\* v.k raises a TypeError exactly when v is null or undefined
CanRead(v) == v.tag \notin {"undefined", "null"}

\* v.k for a v that can be read: own fields of objects, undefined otherwise
Get(v, k) ==
    IF v.tag = "object" /\ k \in DOMAIN v.f THEN v.f[k] ELSE Undefined

\* a || b
Or(a, b) == IF Truthy(a) THEN a ELSE b

\* a ?? b
Coalesce(a, b) == IF a.tag \in {"undefined", "null"} THEN b ELSE a

\* Number::toString for the integers of the model, as a one-chunk text
NumberToString(n) == <<ToString(n)>>

----------------------------------------------------------------------------
(* Argument validators: Ok(TRUE), Ok(FALSE), or Throw when a property of   *)
(* null or undefined is read                                                *)

Ok(v) == [ok |-> TRUE, v |-> v]
Throw(e) == [ok |-> FALSE, error |-> e]

\* args.k === undefined || typeof args.k === 'string'
OptionalString(args, k) ==
    Get(args, k) = Undefined \/ TypeOf(Get(args, k)) = "string"

\* the property reads of isValidDirectionsArgs
DirectionsFields(args) ==
    IF ~CanRead(args) THEN Throw("TypeError")
    ELSE Ok(/\ TypeOf(Get(args, "origin")) = "string"
            /\ TypeOf(Get(args, "destination")) = "string"
            /\ OptionalString(args, "mode"))

isValidDirectionsArgsNoNullCheck(args) ==
    IF TypeOf(args) = "object" THEN DirectionsFields(args) ELSE Ok(FALSE)

\* typeof args === 'object' && args !== null && (the property reads)
isValidDirectionsArgs(args) ==
    IF TypeOf(args) = "object" /\ args # Null
    THEN DirectionsFields(args)
    ELSE Ok(FALSE)

\* the property reads of isValidRouteTransitArgs
RouteTransitFields(args) ==
    IF ~CanRead(args) THEN Throw("TypeError")
    ELSE Ok(/\ TypeOf(Get(args, "start")) = "string"
            /\ TypeOf(Get(args, "goal")) = "string"
            /\ OptionalString(args, "start_time")
            /\ OptionalString(args, "term")
            /\ OptionalString(args, "limit")
            /\ OptionalString(args, "datum")
            /\ OptionalString(args, "coord_unit"))

\* typeof args === 'object' && args !== null && (the property reads)
isValidRouteTransitArgs(args) ==
    IF TypeOf(args) = "object" /\ args # Null
    THEN RouteTransitFields(args)
    ELSE Ok(FALSE)

----------------------------------------------------------------------------
(* Text conversions *)

\* a one-chunk string value
S(c) == Str(<<c>>)

RECURSIVE JoinTexts(_, _)
\* texts joined with a separator chunk (Array.prototype.join)
JoinTexts(texts, sep) ==
    IF texts = <<>> THEN <<>>
    ELSE IF Len(texts) = 1 THEN texts[1]
    ELSE texts[1] \o <<sep>> \o JoinTexts(Tail(texts), sep)

RECURSIVE ToStringJS(_)
\* String(v), the conversion a template literal and string + apply
ToStringJS(v) ==
    CASE v.tag = "undefined" -> <<"undefined">>
      [] v.tag = "null" -> <<"null">>
      [] v.tag = "number" -> NumberToString(v.n)
      [] v.tag = "string" -> v.v
      [] v.tag = "boolean" -> IF v.b THEN <<"true">> ELSE <<"false">>
      [] v.tag = "array" ->
            JoinTexts([i \in 1..Len(v.e) |->
                         IF v.e[i].tag \in {"undefined", "null"} THEN <<>>
                         ELSE ToStringJS(v.e[i])], ",")
      [] OTHER -> <<"[object Object]">>

\* the order in which the fields of an object are enumerated
FieldOrder ==
    <<"status", "error_message", "message", "routes", "candidates", "results",
      "result", "name", "items", "summary", "move", "type", "from_time",
      "to_time", "sections">>

\* Object.keys(o), in enumeration order, without the fields JSON.stringify
\* skips (those holding undefined)
SerializedKeys(o) ==
    SelectSeq(FieldOrder, LAMBDA k : k \in DOMAIN o.f /\ o.f[k] # Undefined)

RECURSIVE Indent(_)
Indent(depth) == IF depth = 0 THEN <<>> ELSE <<"  ">> \o Indent(depth - 1)

RECURSIVE SerializeJSON(_, _)
\* SerializeJSONProperty with a gap of two spaces, for a value that is not
\* undefined, at nesting depth `depth`
SerializeJSON(v, depth) ==
    CASE v.tag = "null" -> <<"null">>
      [] v.tag = "number" -> NumberToString(v.n)
      [] v.tag = "string" -> <<"\"">> \o v.v \o <<"\"">>
      [] v.tag = "boolean" -> IF v.b THEN <<"true">> ELSE <<"false">>
      [] v.tag = "array" ->
            IF v.e = <<>> THEN <<"[]">>
            ELSE <<"[", "\n">>
                 \o JoinTexts([i \in 1..Len(v.e) |->
                        Indent(depth + 1) \o
                        (IF v.e[i] = Undefined THEN <<"null">>
                         ELSE SerializeJSON(v.e[i], depth + 1))], ",\n")
                 \o <<"\n">> \o Indent(depth) \o <<"]">>
      [] v.tag = "object" ->
            LET keys == SerializedKeys(v) IN
            IF keys = <<>> THEN <<"{}">>
            ELSE <<"{", "\n">>
                 \o JoinTexts([i \in 1..Len(keys) |->
                        Indent(depth + 1) \o <<"\"", keys[i], "\"", ": ">>
                        \o SerializeJSON(v.f[keys[i]], depth + 1)], ",\n")
                 \o <<"\n">> \o Indent(depth) \o <<"}">>

JSONStringifyOmitted(data) == data

\* JSON.stringify(data, null, 2): a string, or undefined for undefined
JSONStringify(data) ==
    IF data = Undefined THEN Undefined ELSE Str(SerializeJSON(data, 0))

----------------------------------------------------------------------------
(* Object update *)

\* o with field k set to v
SetField(o, k, v) == Obj([o.f EXCEPT ![k] = v])

----------------------------------------------------------------------------
(* Transit server: time normalization *)

\* the literal '+09:00'
TimezoneSuffix == <<"+", "09:00">>

\* the literal '2024-02-11T12:00:00+09:00'
DefaultStartTime == <<"2024-02-11T12:00:00", "+", "09:00">>

\* timeStr.includes('+') ? timeStr : timeStr + '+09:00', for what the call
\* does on every kind of value: null and undefined have no properties, and
\* only strings and arrays have an includes method
AppendTimezone(timeStr) ==
    CASE timeStr.tag = "string" ->
            Ok(IF \E i \in 1..Len(timeStr.v) : timeStr.v[i] = "+"
               THEN timeStr
               ELSE Str(timeStr.v \o TimezoneSuffix))
      [] timeStr.tag = "array" ->
            Ok(IF \E i \in 1..Len(timeStr.e) : timeStr.e[i] = S("+")
               THEN timeStr
               ELSE Str(ToStringJS(timeStr) \o TimezoneSuffix))
      [] OTHER -> Throw("TypeError")

AlwaysAppendTimezone(timeStr) ==
    IF timeStr.tag = "string" THEN Ok(Str(timeStr.v \o TimezoneSuffix))
    ELSE AppendTimezone(timeStr)

NeverAppendTimezone(timeStr) ==
    IF timeStr.tag = "string" THEN Ok(timeStr) ELSE AppendTimezone(timeStr)

\* normalizeTime (request) and addTimezone (response): the same function twice
normalizeTime(timeStr) == AppendTimezone(timeStr)

addTimezone(timeStr) == AppendTimezone(timeStr)

\* const startTime = start_time ? normalizeTime(start_time) : '2024-...'
startTime(args) ==
    IF Truthy(Get(args, "start_time"))
    THEN normalizeTime(Get(args, "start_time"))
    ELSE Ok(Str(DefaultStartTime))

\* the body of the sections.map callback
NormalizeSection(section) ==
    IF ~CanRead(section) THEN Throw("TypeError")
    ELSE IF Get(section, "type") # S("move") THEN Ok(section)
    ELSE
      LET from == IF Truthy(Get(section, "from_time"))
                  THEN addTimezone(Get(section, "from_time"))
                  ELSE Ok(Get(section, "from_time"))
          to == IF Truthy(Get(section, "to_time"))
                THEN addTimezone(Get(section, "to_time"))
                ELSE Ok(Get(section, "to_time"))
      IN  IF ~from.ok THEN from
          ELSE IF ~to.ok THEN to
          ELSE IF section.tag # "object" THEN Ok(section)
          ELSE Ok(Obj([k \in DOMAIN section.f |->
                         CASE k = "from_time" -> from.v
                           [] k = "to_time" -> to.v
                           [] OTHER -> section.f[k]]))

\* item.summary.move.from_time = addTimezone(...); ...to_time = addTimezone(...)
NormalizeMove(move) ==
    LET from == addTimezone(Get(move, "from_time"))
        to == addTimezone(Get(move, "to_time"))
    IN  IF ~from.ok THEN from
        ELSE IF ~to.ok THEN to
        ELSE IF move.tag # "object" THEN Throw("TypeError")
        ELSE Ok(Obj([k \in DOMAIN move.f |->
                       CASE k = "from_time" -> from.v
                         [] k = "to_time" -> to.v
                         [] OTHER -> move.f[k]]))

\* the sections of an item after item.sections = item.sections.map(...)
NormalizeSections(sections) ==
    IF ~(Truthy(sections) /\ sections.tag = "array") THEN Ok(sections)
    ELSE
      LET rs == [i \in 1..Len(sections.e) |-> NormalizeSection(sections.e[i])]
      IN  IF \E i \in 1..Len(rs) : ~rs[i].ok THEN Throw("TypeError")
          ELSE Ok(Arr([i \in 1..Len(rs) |-> rs[i].v]))

\* the body of the items.map callback
NormalizeItem(item) ==
    IF ~CanRead(item) THEN Throw("TypeError")
    ELSE
      LET summary == Get(item, "summary")
          hasMove == Truthy(summary) /\ Truthy(Get(summary, "move"))
          move == IF hasMove THEN NormalizeMove(Get(summary, "move"))
                  ELSE Ok(Undefined)
          sections == NormalizeSections(Get(item, "sections"))
      IN  IF ~move.ok THEN move
          ELSE IF ~sections.ok THEN sections
          ELSE IF item.tag # "object" THEN Ok(item)
          ELSE Ok(Obj([k \in DOMAIN item.f |->
                 CASE k = "summary" /\ hasMove -> SetField(summary, "move", move.v)
                   [] k = "sections" -> sections.v
                   [] OTHER -> item.f[k]]))

\* the response transform: data after the items of the body were normalized
NormalizeResponse(data) ==
    IF ~CanRead(data) THEN Throw("TypeError")
    ELSE
      LET items == Get(data, "items") IN
      IF ~(Truthy(items) /\ items.tag = "array") THEN Ok(data)
      ELSE
        LET rs == [i \in 1..Len(items.e) |-> NormalizeItem(items.e[i])]
        IN  IF \E i \in 1..Len(rs) : ~rs[i].ok THEN Throw("TypeError")
            ELSE Ok(SetField(data, "items", Arr([i \in 1..Len(rs) |-> rs[i].v])))

----------------------------------------------------------------------------
(* Directions server: resource URIs.  A URI is a sequence of chunks: its    *)
(* scheme part, then single characters.                                     *)

\* /^directions:\/\/(.+)\/(.+)$/ : the first group is greedy, so the split
\* is at the last '/' that leaves both groups non-empty.  No match: <<>>;
\* a match: <<group 1, group 2>>
UriSplitAtFirstSlash(uri) ==
    LET cuts == {i \in 3..(Len(uri) - 1) : uri[i] = "/"} IN
    IF uri = <<>> \/ uri[1] # "directions://" \/ cuts = {} THEN <<>>
    ELSE LET i == CHOOSE c \in cuts : \A d \in cuts : c <= d
         IN  <<SubSeq(uri, 2, i - 1), SubSeq(uri, i + 1, Len(uri))>>

UriMatch(uri) ==
    LET cuts == {i \in 3..(Len(uri) - 1) : uri[i] = "/"} IN
    IF uri = <<>> \/ uri[1] # "directions://" \/ cuts = {} THEN <<>>
    ELSE LET i == CHOOSE c \in cuts : \A d \in cuts : d <= c
         IN  <<SubSeq(uri, 2, i - 1), SubSeq(uri, i + 1, Len(uri))>>

\* the value of a hexadecimal digit, -1 for any other character
HexVal(c) ==
    CASE c = "2" -> 2
      [] c = "F" -> 15
      [] OTHER -> -1

\* the characters of the model that a single escaped byte stands for
ByteChar == (34 :> "\"") @@ (47 :> "/")

RECURSIVE DecodeChars(_)
\* decodeURIComponent on a character sequence: %XX is one byte; a byte
\* below 0x80 is its character; a byte from 0x80 on must start or continue
\* a multi-byte sequence, which no %XX of these characters can complete
DecodeChars(s) ==
    IF s = <<>> THEN Ok(<<>>)
    ELSE IF s[1] # "%" THEN
        LET rest == DecodeChars(Tail(s))
        IN  IF rest.ok THEN Ok(<<s[1]>> \o rest.v) ELSE rest
    ELSE IF Len(s) < 3 \/ HexVal(s[2]) < 0 \/ HexVal(s[3]) < 0
        THEN Throw("URIError")
    ELSE
        LET byte == (16 * HexVal(s[2]) + HexVal(s[3])) % 256
            rest == DecodeChars(SubSeq(s, 4, Len(s)))
        IN  IF byte >= 128 THEN Throw("URIError")
            ELSE IF rest.ok THEN Ok(<<ByteChar[byte]>> \o rest.v) ELSE rest

decodeURIComponent(s) == DecodeChars(s)

----------------------------------------------------------------------------
(* Servers, requests, HTTP exchanges and outcomes *)

Servers == {"directions", "transit", "places"}

\* the names the ListTools handler of each server advertises
ToolCatalog(server) ==
    CASE server = "directions" -> {"get_directions"}
      [] server = "transit" -> {"route_transit"}
      [] server = "places" -> {"search_places", "get_place_details", "nearby_search"}

\* the provider name in the error text of each server
Provider(server) ==
    CASE server = "directions" -> "Google Maps API error: "
      [] server = "transit" -> "Navitime API error: "
      [] server = "places" -> "Google Places API error: "

NoReq == [method |-> "none"]
NoOutcome == [kind |-> "none"]
NoUpstream == [status |-> "none"]

\* throw new McpError(code, message)
McpError(code, message) ==
    [kind |-> "error", error |-> "McpError", code |-> code, message |-> message]

\* an exception that is not an McpError leaves the handler (throw error)
Uncaught(e) == [kind |-> "error", error |-> e]

\* { content: [{ type: 'text', text }] }
ToolResult(text) ==
    [kind |-> "result", content |-> <<[type |-> "text", text |-> text]>>]

\* { content: [{ type: 'text', text }], isError: true }
ToolErrorResult(text) ==
    [kind |-> "result", content |-> <<[type |-> "text", text |-> text]>>,
     isError |-> TRUE]

\* { contents: [{ uri, mimeType: 'application/json', text }] }
ResourceResult(uri, text) ==
    [kind |-> "resource",
     contents |-> <<[uri |-> uri, mimeType |-> "application/json", text |-> text]>>]

\* axios.create(...) in the constructor of each server: the places instance
\* has the key as a default param, the transit instance the key and host as
\* headers
AxiosCreate(server, key) ==
    CASE server = "directions" ->
            [baseURL |-> "https://maps.googleapis.com/maps/api/directions/json"]
      [] server = "transit" ->
            [baseURL |-> "https://navitime-route-totalnavi.p.rapidapi.com",
             headers |-> [key |-> key,
                          host |-> "navitime-route-totalnavi.p.rapidapi.com"]]
      [] server = "places" ->
            [baseURL |-> "https://maps.googleapis.com/maps/api/place",
             params |-> [key |-> Str(key)]]

\* the configuration of a GET: the request's url and params merged with the
\* instance's configuration, the request's params first
MergeConfig(instance, url, params) ==
    [url |-> url,
     params |-> IF "params" \in DOMAIN instance THEN params @@ instance.params
                ELSE params]
    @@ [k \in DOMAIN instance \ {"params"} |-> instance[k]]

\* the instance as if a request that failed earlier had cleared the key
AxiosGetAfterFailure(server, url, params) ==
    IF \E p \in past : p.outcome.kind = "error" \/ "isError" \in DOMAIN p.outcome
    THEN [baseURL |-> axiosInstance[server].baseURL, url |-> url,
          params |-> [k \in DOMAIN params \ {"key"} |-> params[k]]]
    ELSE MergeConfig(axiosInstance[server], url, params)

\* this.axiosInstance.get(url, {params})
AxiosGet(server, url, params) ==
    MergeConfig(axiosInstance[server], url, params)

----------------------------------------------------------------------------
(* Request translation: the query parameters of each tool *)

\* v?.k
OptGet(v, k) == IF CanRead(v) THEN Get(v, k) ELSE Undefined

DirectionsParamsModeDropped(args) ==
    [origin |-> Get(args, "origin"),
     destination |-> Get(args, "destination"),
     mode |-> S("driving"),
     key |-> Str(API_KEY)]

\* get_directions: origin, destination, mode || 'driving', key
DirectionsParams(args) ==
    [origin |-> Get(args, "origin"),
     destination |-> Get(args, "destination"),
     mode |-> Or(Get(args, "mode"), S("driving")),
     key |-> Str(API_KEY)]

\* read resource: origin, destination, key
ResourceParams(origin, destination) ==
    [origin |-> Str(origin), destination |-> Str(destination), key |-> Str(API_KEY)]

\* route_transit, for validated arguments
TransitParams(args) ==
    [start |-> Get(args, "start"),
     goal |-> Get(args, "goal"),
     start_time |-> startTime(args).v,
     term |-> Or(Get(args, "term"), S("60")),
     limit |-> Or(Get(args, "limit"), S("3")),
     datum |-> Or(Get(args, "datum"), S("wgs84")),
     coord_unit |-> Or(Get(args, "coord_unit"), S("degree"))]

\* handleSearchPlaces: reading args.query throws on null and undefined
SearchPlacesParams(args) ==
    IF ~CanRead(args) THEN Throw("TypeError")
    ELSE Ok([input |-> Get(args, "query"),
             inputtype |-> S("textquery"),
             language |-> Or(Get(args, "language"), S("ja")),
             fields |-> S("formatted_address,name,rating,opening_hours,geometry,place_id")])

\* handleGetPlaceDetails
PlaceDetailsParams(args) ==
    IF ~CanRead(args) THEN Throw("TypeError")
    ELSE Ok([place_id |-> Get(args, "placeId"),
             language |-> Or(Get(args, "language"), S("ja")),
             fields |-> S("name,rating,formatted_phone_number,formatted_address,opening_hours,website,reviews,price_level,photos")])

NearbySearchParamsSwapped(args) ==
    IF ~CanRead(args) \/ ~CanRead(Get(args, "location")) THEN Throw("TypeError")
    ELSE Ok([location |-> Str(ToStringJS(Get(Get(args, "location"), "lng")) \o <<",">>
                              \o ToStringJS(Get(Get(args, "location"), "lat"))),
             radius |-> Or(Get(args, "radius"), Num(1000)),
             type |-> Get(args, "type"),
             language |-> Or(Get(args, "language"), S("ja"))])

\* handleNearbySearch: args.location.lat throws when args or args.location
\* is null or undefined
NearbySearchParams(args) ==
    IF ~CanRead(args) \/ ~CanRead(Get(args, "location")) THEN Throw("TypeError")
    ELSE Ok([location |-> Str(ToStringJS(Get(Get(args, "location"), "lat")) \o <<",">>
                              \o ToStringJS(Get(Get(args, "location"), "lng"))),
             radius |-> Or(Get(args, "radius"), Num(1000)),
             type |-> Get(args, "type"),
             language |-> Or(Get(args, "language"), S("ja"))])

----------------------------------------------------------------------------
(* Handlers.  A handler runs to its await (Await: the GET it issues) or to  *)
(* its end (Done: what it returns or throws), and is resumed by the         *)
(* upstream's answer.                                                       *)

Await(get) == [next |-> "awaiting", get |-> get]
Done(out) == [next |-> "done", outcome |-> out]

\* axios.isAxiosError(error)
isAxiosError(error) == Truthy(Get(error, "isAxiosError"))

\* if (!isValid(args)) throw new McpError(InvalidParams, message); else rest
CheckArgs(valid, message, rest) ==
    IF ~valid.ok THEN Done(Uncaught(valid.error))
    ELSE IF ~valid.v THEN Done(McpError("InvalidParams", <<message>>))
    ELSE rest

DirectionsCallToolArgsFirst(name, args) ==
    CheckArgs(isValidDirectionsArgs(args), "Invalid directions arguments",
        IF name # "get_directions"
        THEN Done(McpError("MethodNotFound", <<"Unknown tool: ", name>>))
        ELSE Await(AxiosGet("directions", "", DirectionsParams(args))))

\* directions server, CallToolRequestSchema handler up to its await
DirectionsCallTool(name, args) ==
    IF name # "get_directions"
    THEN Done(McpError("MethodNotFound", <<"Unknown tool: ", name>>))
    ELSE CheckArgs(isValidDirectionsArgs(args), "Invalid directions arguments",
                   Await(AxiosGet("directions", "", DirectionsParams(args))))

\* transit server, CallToolRequestSchema handler up to its await
TransitCallTool(name, args) ==
    IF name # "route_transit"
    THEN Done(McpError("MethodNotFound", <<"Unknown tool: ", name>>))
    ELSE CheckArgs(isValidRouteTransitArgs(args), "Invalid route_transit arguments",
                   Await(AxiosGet("transit", "/route_transit", TransitParams(args))))

\* places server, CallToolRequestSchema handler up to its await: the switch
\* on the tool name; an exception of a handle* method is caught, is no axios
\* error and is thrown again, as is the McpError of the default case
PlacesCallTool(name, args) ==
    IF name \notin {"search_places", "get_place_details", "nearby_search"}
    THEN Done(McpError("MethodNotFound", <<"Unknown tool: ", name>>))
    ELSE
      LET params == CASE name = "search_places" -> SearchPlacesParams(args)
                      [] name = "get_place_details" -> PlaceDetailsParams(args)
                      [] name = "nearby_search" -> NearbySearchParams(args)
          url == CASE name = "search_places" -> "/findplacefromtext/json"
                   [] name = "get_place_details" -> "/details/json"
                   [] name = "nearby_search" -> "/nearbysearch/json"
      IN  IF ~params.ok THEN Done(Uncaught(params.error))
          ELSE Await(AxiosGet("places", url, params.v))

CallToolStart(server, name, args) ==
    CASE server = "directions" -> DirectionsCallTool(name, args)
      [] server = "transit" -> TransitCallTool(name, args)
      [] server = "places" -> PlacesCallTool(name, args)

\* directions server, ReadResourceRequestSchema handler up to its await
ReadResourceStart(uri) ==
    LET match == UriMatch(uri) IN
    IF match = <<>>
    THEN Done(McpError("InvalidRequest", <<"Invalid URI: ">> \o uri))
    ELSE
      LET origin == decodeURIComponent(match[1])
          destination == decodeURIComponent(match[2])
      IN  IF ~origin.ok THEN Done(Uncaught(origin.error))
          ELSE IF ~destination.ok THEN Done(Uncaught(destination.error))
          ELSE Await(AxiosGet("directions", "", ResourceParams(origin.v, destination.v)))

\* `${error.response?.data?.error_message || error.message}`
GoogleErrorMessage(error) ==
    ToStringJS(Or(OptGet(OptGet(Get(error, "response"), "data"), "error_message"),
                  Get(error, "message")))

\* `${error.response?.data?.message ?? error.message}`
NavitimeErrorMessage(error) ==
    ToStringJS(Coalesce(OptGet(OptGet(Get(error, "response"), "data"), "message"),
                        Get(error, "message")))

ErrorTextOwnMessageOnly(server, error) ==
    Str(<<Provider(server)>> \o ToStringJS(Get(error, "message")))

\* the text of the isError result of each server
ErrorText(server, error) ==
    Str(<<Provider(server)>> \o
        (IF server = "transit" THEN NavitimeErrorMessage(error)
         ELSE GoogleErrorMessage(error)))

\* the catch clause of the three CallToolRequestSchema handlers
CallToolCatch(server, error) ==
    IF isAxiosError(error) THEN ToolErrorResult(ErrorText(server, error))
    ELSE Uncaught("Error")

\* CallToolRequestSchema handlers after the await: the transit server
\* normalizes the body, and a TypeError of that code is caught, is no axios
\* error and is thrown again
CallToolResume(server, up) ==
    IF up.status = "error" THEN CallToolCatch(server, up.error)
    ELSE IF server = "transit" THEN
        LET data == NormalizeResponse(up.data)
        IN  IF data.ok THEN ToolResult(JSONStringify(data.v))
            ELSE Uncaught(data.error)
    ELSE ToolResult(JSONStringify(up.data))

ReadResourceResumeAsToolCall(uri, up) ==
    IF up.status = "error" THEN CallToolCatch("directions", up.error)
    ELSE ResourceResult(uri, JSONStringify(up.data))

\* ReadResourceRequestSchema handler after the await
ReadResourceResume(uri, up) ==
    IF up.status = "error" THEN
        IF isAxiosError(up.error)
        THEN McpError("InternalError",
                      <<Provider("directions")>> \o GoogleErrorMessage(up.error))
        ELSE Uncaught("Error")
    ELSE ResourceResult(uri, JSONStringify(up.data))

----------------------------------------------------------------------------
(* The inputs of the model *)

\* the largest number of characters after the scheme of a resource URI
MaxUriLen == 5

\* the values process.env may hold for the key (startup requires one)
Keys == {<<"key-A">>, <<"key-B">>}

ToolNames ==
    {"get_directions", "route_transit", "search_places", "get_place_details",
     "nearby_search", "bogus_tool"}

\* arguments that are no objects with fields, for every tool
PlainArgs == {Undefined, Null, Num(5), S("Tokyo"), Arr(<<>>)}

DirectionsArgs ==
    PlainArgs \cup
    {Obj([origin |-> o, destination |-> d, mode |-> m]) :
        o \in {Undefined, Null, Num(5), S("Tokyo")},
        d \in {Undefined, Num(5), Str(<<>>), S("Osaka")},
        m \in {Undefined, Null, Num(0), Str(<<>>), S("walking")}}

TransitArgs ==
    PlainArgs \cup
    {Obj([start |-> a, goal |-> b, start_time |-> t, term |-> x, limit |-> x,
          datum |-> y, coord_unit |-> z]) :
        a \in {Undefined, Num(5), S("35.6,139.7")},
        b \in {Undefined, Null, S("34.7,135.5")},
        t \in {Undefined, Null, Num(5), Str(<<>>), S("2024-05-01T09:00:00"),
               Str(<<"2024-05-01T09:00:00", "+", "09:00">>),
               Str(<<"+", "2024">>)},
        x \in {Undefined, Num(30), S("30")},
        y \in {Undefined, Str(<<>>), S("tokyo")},
        z \in {Undefined, Null, S("minute")}}

PlacesArgs ==
    PlainArgs \cup
    {Obj([query |-> q, placeId |-> q, language |-> l]) :
        q \in {Undefined, Num(5), S("cafe")},
        l \in {Undefined, Str(<<>>), S("en")}} \cup
    {Obj([location |-> c, radius |-> r, type |-> t, language |-> l]) :
        c \in {Undefined, Null, S("35,139")} \cup
              {Obj([lat |-> a, lng |-> b]) : a \in {Undefined, Num(35), Num(-3)},
                                             b \in {Num(139), Num(0), S("139")}},
        r \in {Undefined, Null, Num(0), Num(500), S("500")},
        t \in {Undefined, S("cafe")},
        l \in {Undefined, Str(<<>>), S("en")}}

ArgsOf(server) ==
    CASE server = "directions" -> DirectionsArgs
      [] server = "transit" -> TransitArgs
      [] server = "places" -> PlacesArgs

UriChars == {"T", "/", "%", "2", "F"}

RECURSIVE CharSeqs(_)
\* the character sequences of at most n characters
CharSeqs(n) ==
    IF n = 0 THEN {<<>>}
    ELSE LET shorter == CharSeqs(n - 1)
         IN  shorter \cup {Append(q, c) : q \in {r \in shorter : Len(r) = n - 1},
                                          c \in UriChars}

Uris ==
    {<<"directions://">> \o r : r \in CharSeqs(MaxUriLen)} \cup
    {<<"places://", "T", "/", "T">>, <<"directions:/", "T", "/", "T">>,
     <<"directions://", "ExampleRoute">>}

\* the message an upstream error body may carry
MessageValues == {Undefined, Null, Str(<<>>), S("key invalid")}

\* the errors axiosInstance.get rejects with: a network error has no
\* response; a non-2xx status has one, with whatever body the upstream sent
AxiosErrors ==
    {Obj([isAxiosError |-> Bool(TRUE), message |-> S("Network Error"),
          response |-> Undefined])} \cup
    {Obj([isAxiosError |-> Bool(TRUE),
          message |-> S("Request failed with status code 403"),
          response |-> Obj([status |-> Num(403), data |-> d])]) :
        d \in {Null, S("Forbidden")} \cup
              {Obj([error_message |-> a, message |-> b]) :
                  a \in MessageValues, b \in MessageValues}}

\* a transit item with a route summary and one section
TransitItem(from, to, section) ==
    Obj([summary |-> Obj([move |-> Obj([from_time |-> from, to_time |-> to])]),
         sections |-> Arr(<<section>>)])

\* the bodies of 2xx answers
Bodies(server) ==
    IF server = "transit"
    THEN {Null,
          Obj([status |-> S("OK")]),
          Obj([items |-> Arr(<<>>)]),
          Obj([items |-> Arr(<<
              TransitItem(S("2024-05-01T09:00:00"),
                          Str(<<"2024-05-01T10:00:00", "+", "09:00">>),
                          Obj([type |-> S("move"),
                               from_time |-> S("2024-05-01T09:00:00"),
                               to_time |-> Undefined]))>>)]),
          Obj([items |-> Arr(<<
              TransitItem(Undefined, S("2024-05-01T10:00:00"),
                          Obj([type |-> S("point"), name |-> S("Tokyo")]))>>)])}
    ELSE {Null, Str(<<>>),
          Obj([status |-> S("OK"), routes |-> Arr(<<>>)]),
          Obj([status |-> S("REQUEST_DENIED"), error_message |-> S("key invalid")])}

Upstreams(server) ==
    {[status |-> "ok", data |-> b] : b \in Bodies(server)} \cup
    {[status |-> "error", error |-> e] : e \in AxiosErrors}

----------------------------------------------------------------------------
(* The state machine *)

Init ==
    /\ API_KEY \in Keys
    /\ pc = "idle"
    /\ req = NoReq
    /\ http = <<>>
    /\ upstream = NoUpstream
    /\ outcome = NoOutcome
    /\ nv = [stage |-> "off"]
    /\ axiosInstance = [s \in Servers |-> AxiosCreate(s, API_KEY)]
    /\ process = [state |-> "off"]
    /\ calls = <<>>
    /\ past = {}

\* what a handler's run to its await or end does to the state
Run(step) ==
    IF step.next = "awaiting"
    THEN /\ pc' = "awaiting"
         /\ http' = Append(http, step.get)
         /\ outcome' = outcome
    ELSE /\ pc' = "done"
         /\ http' = http
         /\ outcome' = step.outcome

\* a tools/call request arrives at a server
CallTool ==
    /\ pc = "idle"
    /\ \E server \in Servers, name \in ToolNames :
      \E args \in ArgsOf(server) :
        /\ req' = [method |-> "tools/call", server |-> server, name |-> name,
                   arguments |-> args]
        /\ Run(CallToolStart(server, name, args))
        /\ UNCHANGED <<API_KEY, upstream, nv, session>>

\* the resources the ListResourcesRequestSchema handler advertises
ResourceCatalog ==
    <<[uri |-> <<"directions://", "ExampleRoute">>,
       name |-> "Example route directions",
       mimeType |-> "application/json"]>>

\* a resources/list request arrives at the directions server, whose
\* handler returns the catalog without an await
ListResources ==
    /\ pc = "idle"
    /\ req' = [method |-> "resources/list", server |-> "directions"]
    /\ pc' = "done"
    /\ outcome' = [kind |-> "resources", resources |-> ResourceCatalog]
    /\ UNCHANGED <<API_KEY, http, upstream, nv, session>>

\* a resources/read request arrives at the directions server
ReadResource ==
    /\ pc = "idle"
    /\ \E uri \in Uris :
        /\ req' = [method |-> "resources/read", server |-> "directions", uri |-> uri]
        /\ Run(ReadResourceStart(uri))
        /\ UNCHANGED <<API_KEY, upstream, nv, session>>

\* the upstream answers the GET and the suspended handler runs to its end
HttpResponse ==
    /\ pc = "awaiting"
    /\ \E up \in Upstreams(req.server) :
        /\ upstream' = up
        /\ outcome' = IF req.method = "tools/call"
                      THEN CallToolResume(req.server, up)
                      ELSE ReadResourceResume(req.uri, up)
        /\ pc' = "done"
        /\ UNCHANGED <<API_KEY, req, http, nv, session>>

\* the response was sent; the server handles the next request
NextRequest ==
    /\ pc = "done"
    /\ pc' = "idle"
    /\ req' = NoReq
    /\ http' = <<>>
    /\ upstream' = NoUpstream
    /\ outcome' = NoOutcome
    /\ UNCHANGED <<API_KEY, nv, session>>

Next == CallTool \/ ListResources \/ ReadResource \/ HttpResponse \/ NextRequest

Spec == Init /\ [][Next]_vars

----------------------------------------------------------------------------
(* The argument validators on their own: a value is drawn and both          *)
(* validators are applied to it.                                            *)

ValidatorInputs ==
    PlainArgs \cup {Bool(TRUE), Arr(<<S("Tokyo"), S("Osaka")>>)}
    \cup DirectionsArgs \cup TransitArgs
    \cup {Obj([origin |-> S("Tokyo"), destination |-> S("Osaka")]),
          Obj([origin |-> S("Tokyo"), mode |-> S("walking")]),
          Obj([start |-> S("35.6,139.7"), goal |-> S("34.7,135.5")]),
          Obj([goal |-> S("34.7,135.5"), term |-> S("30")]),
          Obj([start |-> S("35.6,139.7"), goal |-> S("34.7,135.5"),
               origin |-> S("Tokyo"), destination |-> S("Osaka"),
               mode |-> Bool(FALSE), limit |-> Arr(<<>>)])}

InitValidators ==
    /\ API_KEY \in Keys
    /\ pc = "idle"
    /\ req = NoReq
    /\ http = <<>>
    /\ upstream = NoUpstream
    /\ outcome = NoOutcome
    /\ nv \in {[stage |-> "input", input |-> v] : v \in ValidatorInputs}
    /\ axiosInstance = [s \in Servers |-> AxiosCreate(s, API_KEY)]
    /\ process = [state |-> "off"]
    /\ calls = <<>>
    /\ past = {}

\* isValidDirectionsArgs(input) and isValidRouteTransitArgs(input)
Validate ==
    /\ nv.stage = "input"
    /\ nv' = [stage |-> "validated", input |-> nv.input,
              directions |-> isValidDirectionsArgs(nv.input),
              transit |-> isValidRouteTransitArgs(nv.input)]
    /\ UNCHANGED <<API_KEY, pc, req, http, upstream, outcome, session>>

NextValidators == Validate

SpecValidators == InitValidators /\ [][NextValidators]_vars

----------------------------------------------------------------------------
(* The transit response transform on its own: a body is drawn, normalized,  *)
(* and the normalized body is normalized again.                             *)

\* the largest number of items of a transit body
MaxItems == 2

TimeValues ==
    {Undefined, Str(<<>>), S("2024-05-01T09:00:00"),
     Str(<<"2024-05-01T09:00:00", "+", "09:00">>), Num(900)}

TransitSummaries ==
    {Undefined, Obj([move |-> Undefined])} \cup
    {Obj([move |-> Obj([from_time |-> f, to_time |-> t])]) :
        f \in TimeValues, t \in TimeValues}

TransitSections ==
    {Null} \cup
    {Obj([type |-> S(k), from_time |-> f, to_time |-> Undefined]) :
        k \in {"move", "point"}, f \in TimeValues} \cup
    {Obj([type |-> S("move"), from_time |-> S("2024-05-01T09:00:00"), to_time |-> t]) :
        t \in TimeValues}

TransitItems ==
    {Null} \cup
    {Obj([summary |-> m, sections |-> Undefined]) : m \in TransitSummaries} \cup
    {Obj([summary |-> Undefined, sections |-> Arr(<<x>>)]) : x \in TransitSections} \cup
    {Obj([summary |-> Undefined, sections |-> Arr(<<>>)]),
     Obj([summary |-> Undefined, sections |-> S("none")]),
     Obj([summary |-> Obj([move |-> Obj([from_time |-> Arr(<<S("09:00")>>),
                                         to_time |-> Arr(<<S("+")>>)])]),
          sections |-> Undefined]),
     Obj([summary |-> Obj([move |-> Obj([from_time |-> S("2024-05-01T09:00:00"),
                                         to_time |-> S("2024-05-01T10:00:00")])]),
          sections |-> Arr(<<Obj([type |-> S("move"),
                                  from_time |-> S("2024-05-01T09:00:00"),
                                  to_time |-> S("2024-05-01T09:30:00")]),
                             Obj([type |-> S("point"), name |-> S("Tokyo")])>>)])}

RECURSIVE ItemSeqs(_)
\* the sequences of at most n items
ItemSeqs(n) ==
    IF n = 0 THEN {<<>>}
    ELSE LET shorter == ItemSeqs(n - 1)
         IN  shorter \cup {Append(q, i) : q \in {r \in shorter : Len(r) = n - 1},
                                          i \in TransitItems}

TransitBodies ==
    {Null, S("OK"), Obj([status |-> S("OK")]), Obj([items |-> S("none")])} \cup
    {Obj([items |-> Arr(e)]) : e \in ItemSeqs(MaxItems)}

InitNormalizer ==
    /\ API_KEY \in Keys
    /\ pc = "idle"
    /\ req = NoReq
    /\ http = <<>>
    /\ upstream = NoUpstream
    /\ outcome = NoOutcome
    /\ nv \in {[stage |-> "input", body |-> b] : b \in TransitBodies}
    /\ axiosInstance = [s \in Servers |-> AxiosCreate(s, API_KEY)]
    /\ process = [state |-> "off"]
    /\ calls = <<>>
    /\ past = {}

\* the response transform applied to the upstream body
NormalizeOnce ==
    /\ nv.stage = "input"
    /\ nv' = [stage |-> "once", body |-> nv.body,
              first |-> NormalizeResponse(nv.body)]
    /\ UNCHANGED <<API_KEY, pc, req, http, upstream, outcome, session>>

\* the response transform applied to what it returned
NormalizeAgain ==
    /\ nv.stage = "once"
    /\ nv.first.ok
    /\ nv' = [stage |-> "twice", body |-> nv.body, first |-> nv.first,
              second |-> NormalizeResponse(nv.first.v)]
    /\ UNCHANGED <<API_KEY, pc, req, http, upstream, outcome, session>>

NextNormalizer == NormalizeOnce \/ NormalizeAgain

SpecNormalizer == InitNormalizer /\ [][NextNormalizer]_vars

----------------------------------------------------------------------------
(* One server process over many requests.  A process serves one server's    *)
(* requests for as long as it runs; what it has served is remembered in     *)
(* past, which no handler reads.                                            *)

\* the handler of a request up to its await or end
Start(r) ==
    IF r.method = "tools/call" THEN CallToolStart(r.server, r.name, r.arguments)
    ELSE ReadResourceStart(r.uri)

\* the suspended handler as if the request were kept in a field of the
\* server, which the call received last has overwritten
ResumeSharedRequest(r, up) ==
    LET shared == IF calls = <<>> THEN r ELSE calls[Len(calls)].req
    IN  IF shared.method = "tools/call" THEN CallToolResume(shared.server, up)
        ELSE ReadResourceResume(shared.uri, up)

\* the suspended handler of a request from the upstream's answer to its end:
\* the request is a parameter of the handler's own invocation
Resume(r, up) ==
    IF r.method = "tools/call" THEN CallToolResume(r.server, up)
    ELSE ReadResourceResume(r.uri, up)

ToolCall(server, name, args) ==
    [method |-> "tools/call", server |-> server, name |-> name, arguments |-> args]

\* the requests a process is sent: valid, invalid and unknown ones
SessionRequests(server) ==
    CASE server = "directions" ->
            {ToolCall(server, "get_directions",
                      Obj([origin |-> S("Tokyo"), destination |-> S("Osaka"),
                           mode |-> S("walking")])),
             ToolCall(server, "get_directions", Null),
             ToolCall(server, "bogus_tool", Undefined),
             [method |-> "resources/read", server |-> server,
              uri |-> <<"directions://", "T", "/", "T">>],
             [method |-> "resources/read", server |-> server,
              uri |-> <<"places://", "T", "/", "T">>]}
      [] server = "transit" ->
            {ToolCall(server, "route_transit",
                      Obj([start |-> S("35.6,139.7"), goal |-> S("34.7,135.5"),
                           start_time |-> S("2024-05-01T09:00:00"),
                           term |-> Undefined, limit |-> Undefined,
                           datum |-> Undefined, coord_unit |-> Undefined])),
             ToolCall(server, "route_transit", Num(5)),
             ToolCall(server, "bogus_tool", Undefined)}
      [] server = "places" ->
            {ToolCall(server, "search_places",
                      Obj([query |-> S("cafe"), placeId |-> S("cafe"),
                           language |-> S("en")])),
             ToolCall(server, "get_place_details", Undefined),
             ToolCall(server, "bogus_tool", Undefined)}

\* the answers of the upstream to them: a body with a route or an item,
\* a body that refuses the key, and a network error
SessionUpstreams(server) ==
    {up \in Upstreams(server) :
        \/ /\ up.status = "ok"
           /\ \/ Get(up.data, "routes") # Undefined
              \/ Get(up.data, "error_message") # Undefined
              \/ Get(up.data, "items") \notin {Undefined, Arr(<<>>)}
        \/ /\ up.status = "error"
           /\ Get(up.error, "response") = Undefined}

Running(server) ==
    [state |-> "running", server |-> server, transport |-> "open",
     exitCode |-> "none"]

\* what a process remembers of the request it has just answered
Served == [req |-> req, http |-> http, upstream |-> upstream, outcome |-> outcome]

InitSession ==
    /\ API_KEY \in Keys
    /\ pc = "idle"
    /\ req = NoReq
    /\ http = <<>>
    /\ upstream = NoUpstream
    /\ outcome = NoOutcome
    /\ nv = [stage |-> "off"]
    /\ axiosInstance = [s \in Servers |-> AxiosCreate(s, API_KEY)]
    /\ process \in {Running(s) : s \in Servers}
    /\ calls = <<>>
    /\ past = {}

\* a request arrives at the process
SessionRequest ==
    /\ pc = "idle"
    /\ process.state = "running"
    /\ \E r \in SessionRequests(process.server) :
        /\ req' = r
        /\ Run(Start(r))
    /\ UNCHANGED <<API_KEY, upstream, nv, session>>

\* the upstream answers the GET and the suspended handler runs to its end
SessionResponse ==
    /\ pc = "awaiting"
    /\ \E up \in SessionUpstreams(process.server) :
        /\ upstream' = up
        /\ outcome' = Resume(req, up)
    /\ pc' = "done"
    /\ UNCHANGED <<API_KEY, req, http, nv, session>>

\* the response was sent; the process waits for the next request
SessionReply ==
    /\ pc = "done"
    /\ pc' = "idle"
    /\ req' = NoReq
    /\ http' = <<>>
    /\ upstream' = NoUpstream
    /\ outcome' = NoOutcome
    /\ past' = past \cup {Served}
    /\ UNCHANGED <<API_KEY, nv, axiosInstance, process, calls>>

NextSession == SessionRequest \/ SessionResponse \/ SessionReply

SpecSession == InitSession /\ [][NextSession]_vars

----------------------------------------------------------------------------
(* One server process with pipelined requests and the interrupt signal.     *)
(* calls lists the calls that are in flight together in the order of their  *)
(* arrival; each is an invocation of a handler with its own request.        *)

\* the largest number of calls in flight together
MaxInFlight == 2

\* a handler invocation that has run to its await or, without one, to its end
Begin(r) ==
    LET step == Start(r)
    IN  IF step.next = "awaiting"
        THEN [state |-> "awaiting", req |-> r, http |-> <<step.get>>,
              upstream |-> NoUpstream, outcome |-> NoOutcome]
        ELSE [state |-> "answered", req |-> r, http |-> <<>>,
              upstream |-> NoUpstream, outcome |-> step.outcome]

\* the invocation after the upstream's answer: its response is sent over
\* the transport, which a closed transport does not do
Finish(call, up, transport) ==
    [state |-> IF transport = "open" THEN "answered" ELSE "dropped",
     req |-> call.req, http |-> call.http, upstream |-> up,
     outcome |-> Resume(call.req, up)]

\* the sequence without its i-th element
Remove(seq, i) == SubSeq(seq, 1, i - 1) \o SubSeq(seq, i + 1, Len(seq))

OnSigintExitFirst(p) ==
    [p EXCEPT !.state = "exited", !.exitCode = 0]

\* the SIGINT listener up to its await: this.server.close() closes the
\* transport
OnSigint(p) ==
    [p EXCEPT !.state = "closing", !.transport = "closed"]

\* process.exit(code)
ProcessExit(p, code) ==
    [p EXCEPT !.state = "exited", !.exitCode = code]

InitPipeline ==
    /\ API_KEY \in Keys
    /\ pc = "idle"
    /\ req = NoReq
    /\ http = <<>>
    /\ upstream = NoUpstream
    /\ outcome = NoOutcome
    /\ nv = [stage |-> "off"]
    /\ axiosInstance = [s \in Servers |-> AxiosCreate(s, API_KEY)]
    /\ process \in {Running(s) : s \in Servers}
    /\ calls = <<>>
    /\ past = {}

\* a request arrives while earlier ones may be suspended
PipelineRequest ==
    /\ process.state = "running"
    /\ Len(calls) < MaxInFlight
    /\ \E r \in SessionRequests(process.server) :
        calls' = Append(calls, Begin(r))
    /\ UNCHANGED <<API_KEY, pc, req, http, upstream, outcome, nv,
                   axiosInstance, process, past>>

\* the upstream answers the GET of any suspended call, which runs to its end
PipelineResponse ==
    /\ process.state # "exited"
    /\ \E i \in DOMAIN calls :
        /\ calls[i].state = "awaiting"
        /\ \E up \in SessionUpstreams(process.server) :
            calls' = [calls EXCEPT ![i] = Finish(calls[i], up, process.transport)]
    /\ UNCHANGED <<API_KEY, pc, req, http, upstream, outcome, nv,
                   axiosInstance, process, past>>

\* a call that has ended is no longer held
PipelineRelease ==
    /\ process.state # "exited"
    /\ \E i \in DOMAIN calls :
        /\ calls[i].state # "awaiting"
        /\ calls' = Remove(calls, i)
    /\ UNCHANGED <<API_KEY, pc, req, http, upstream, outcome, nv,
                   axiosInstance, process, past>>

\* process.on('SIGINT', ...): the listener runs to its await
Sigint ==
    /\ process.state = "running"
    /\ process' = OnSigint(process)
    /\ UNCHANGED <<API_KEY, pc, req, http, upstream, outcome, nv,
                   axiosInstance, calls, past>>

\* the listener after its await: process.exit(0)
Exit ==
    /\ process.state = "closing"
    /\ process' = ProcessExit(process, 0)
    /\ UNCHANGED <<API_KEY, pc, req, http, upstream, outcome, nv,
                   axiosInstance, calls, past>>

NextPipeline ==
    PipelineRequest \/ PipelineResponse \/ PipelineRelease \/ Sigint \/ Exit

SpecPipeline == InitPipeline /\ [][NextPipeline]_vars

\* the continuation of the listener's await is run once close() has resolved
SpecPipelineFair == SpecPipeline /\ WF_vars(Exit)

----------------------------------------------------------------------------
(* Vocabulary of the properties *)

\* the value of field k of a value, Undefined when it has none
Field(v, k) == IF v.tag = "object" /\ k \in DOMAIN v.f THEN v.f[k] ELSE Undefined

IsString(v) == v.tag = "string"
IsNumber(v) == v.tag = "number"
IsAbsent(v) == v = Undefined

\* a non-null object whose required fields are strings and whose optional
\* fields are absent or strings
StringContract(v, required, optional) ==
    /\ v.tag = "object"
    /\ \A k \in required : IsString(Field(v, k))
    /\ \A k \in optional : IsAbsent(Field(v, k)) \/ IsString(Field(v, k))

DirectionsContract(v) == StringContract(v, {"origin", "destination"}, {"mode"})

TransitContract(v) ==
    StringContract(v, {"start", "goal"},
                   {"start_time", "term", "limit", "datum", "coord_unit"})

\* a location object with numeric lat and lng
IsLocation(v) ==
    v.tag = "object" /\ IsNumber(Field(v, "lat")) /\ IsNumber(Field(v, "lng"))

\* the required-shape contract of each tool
ToolContract(name, v) ==
    CASE name = "get_directions" -> DirectionsContract(v)
      [] name = "route_transit" -> TransitContract(v)
      [] name = "search_places" -> StringContract(v, {"query"}, {"language"})
      [] name = "get_place_details" -> StringContract(v, {"placeId"}, {"language"})
      [] name = "nearby_search" ->
            /\ v.tag = "object"
            /\ IsLocation(Field(v, "location"))
            /\ IsAbsent(Field(v, "radius")) \/ IsNumber(Field(v, "radius"))
            /\ IsAbsent(Field(v, "type")) \/ IsString(Field(v, "type"))
            /\ IsAbsent(Field(v, "language")) \/ IsString(Field(v, "language"))
      [] OTHER -> FALSE

\* the handler of the current request has run to its await or to its end
Started == pc \in {"awaiting", "done"}

IsToolCall == Started /\ req.method = "tools/call"
IsResourceRead == Started /\ req.method = "resources/read"

\* the request ended in a protocol-level error with this code
ProtocolError(code) ==
    /\ pc = "done"
    /\ outcome.kind = "error"
    /\ outcome.error = "McpError"
    /\ outcome.code = code

\* the request ended in an error, a protocol-level one or a raised exception
EndedInError == pc = "done" /\ outcome.kind = "error"

\* the request ended in a tool-result envelope with isError true
IsErrorEnvelope ==
    /\ pc = "done"
    /\ outcome.kind = "result"
    /\ "isError" \in DOMAIN outcome
    /\ outcome.isError = TRUE

\* the GET failed at the HTTP layer
UpstreamFailed == pc = "done" /\ upstream.status = "error"

----------------------------------------------------------------------------
(* C1: for every tool of every server, a call whose arguments do not        *)
(* satisfy the tool's required-shape contract ends in a protocol-level      *)
(* invalid-params error and issues no HTTP request.                         *)
C1_InvalidArgumentsRejected ==
    (/\ IsToolCall
     /\ req.name \in ToolCatalog(req.server)
     /\ ~ToolContract(req.name, req.arguments))
    => (ProtocolError("InvalidParams") /\ http = <<>>)

(* C2: in each server, a call whose tool name is not in the server's tool   *)
(* catalog ends in a protocol-level method-not-found error whatever its     *)
(* arguments are: no tool-result envelope, no HTTP request.                 *)
C2_UnknownToolMethodNotFound ==
    (IsToolCall /\ req.name \notin ToolCatalog(req.server))
    => (/\ ProtocolError("MethodNotFound")
        /\ outcome.message = <<"Unknown tool: ", req.name>>
        /\ http = <<>>)

\* an unknown tool was called with arguments that satisfy a tool contract
C2_Witness ==
    /\ IsToolCall
    /\ req.name \notin ToolCatalog(req.server)
    /\ req.name = "route_transit"
    /\ DirectionsContract(req.arguments)
    /\ pc = "done"

----------------------------------------------------------------------------
\* the field of an upstream error body that holds its message, per server
MessageField(server) == IF server = "transit" THEN "message" ELSE "error_message"

\* the message of the upstream body of a failed GET: Undefined when there
\* is no response, no body object, or no such field
UpstreamMessage ==
    Field(Field(Field(upstream.error, "response"), "data"), MessageField(req.server))

\* the HTTP error's own message
OwnMessage == Field(upstream.error, "message").v

\* the envelope is one text element with this text
SingleText(text) ==
    /\ Len(outcome.content) = 1
    /\ outcome.content[1] = [type |-> "text", text |-> Str(text)]

(* C3 as stated: when the GET of a tool call fails at the HTTP layer, the   *)
(* call returns an isError envelope whose single text is the provider       *)
(* prefix followed by the upstream message when the body carries one (a     *)
(* string, of any length), and by the HTTP error's own message otherwise.   *)
C3_AnyCarriedMessageIsShown ==
    (IsToolCall /\ UpstreamFailed)
    => (/\ IsErrorEnvelope
        /\ SingleText(<<Provider(req.server)>> \o
               (IF IsString(UpstreamMessage) THEN UpstreamMessage.v ELSE OwnMessage)))

\* the upstream message that the error text shows: the Google servers show
\* a non-empty message, the transit server shows any string
ShownMessage ==
    /\ IsString(UpstreamMessage)
    /\ req.server = "transit" \/ UpstreamMessage.v # <<>>

(* C3, amended: when the GET of a tool call fails at the HTTP layer, the    *)
(* call never ends in an error; it returns an isError envelope whose single *)
(* text is the provider prefix followed by the upstream message when the    *)
(* body carries one that is non-empty (directions, places) or of any length *)
(* (transit), and by the HTTP error's own message otherwise.                *)
C3_UpstreamFailureIsErrorEnvelope ==
    (IsToolCall /\ UpstreamFailed)
    => (/\ IsErrorEnvelope
        /\ ~EndedInError
        /\ SingleText(<<Provider(req.server)>> \o
               (IF ShownMessage THEN UpstreamMessage.v ELSE OwnMessage)))

\* a failed GET whose body carries a message, which the envelope shows
C3_Witness ==
    /\ IsToolCall
    /\ UpstreamFailed
    /\ IsString(UpstreamMessage)
    /\ UpstreamMessage.v = <<"key invalid">>
    /\ IsErrorEnvelope
    /\ outcome.content[1].text = Str(<<Provider(req.server), "key invalid">>)

(* C4: in the directions server an upstream HTTP failure during a           *)
(* read-resource request is raised as a protocol-level internal error and   *)
(* never returned as a result envelope, and during a get_directions call is *)
(* returned as an isError envelope and never raised.                        *)
C4_ResourceRaisesToolReturns ==
    UpstreamFailed
    => (/\ IsResourceRead =>
              (/\ ProtocolError("InternalError")
               /\ outcome.kind \notin {"result", "resource"})
        /\ (IsToolCall /\ req.server = "directions") =>
              (IsErrorEnvelope /\ ~EndedInError))

\* a read-resource request whose GET failed with an upstream message
C4_Witness ==
    /\ IsResourceRead
    /\ UpstreamFailed
    /\ ProtocolError("InternalError")
    /\ outcome.message = <<Provider("directions"), "key invalid">>

----------------------------------------------------------------------------
(* C5: isValidDirectionsArgs and isValidRouteTransitArgs return true if and *)
(* only if the value is a non-null object whose required fields are all     *)
(* strings and whose optional fields are each absent or a string; for every *)
(* other value they return false; they never raise.                         *)
C5_ValidatorsDecideTheContract ==
    nv.stage = "validated"
    => (/\ nv.directions.ok
        /\ nv.transit.ok
        /\ nv.directions.v = DirectionsContract(nv.input)
        /\ nv.transit.v = TransitContract(nv.input))

\* a value with all the fields of the transit contract was accepted
C5_Witness ==
    /\ nv.stage = "validated"
    /\ nv.transit = Ok(TRUE)
    /\ nv.directions = Ok(FALSE)
    /\ IsString(Field(nv.input, "start_time"))
    /\ IsString(Field(nv.input, "coord_unit"))

----------------------------------------------------------------------------
\* the current request is a get_directions call that passed validation
ValidDirectionsCall ==
    /\ IsToolCall
    /\ req.server = "directions"
    /\ req.name = "get_directions"
    /\ DirectionsContract(req.arguments)

\* exactly one GET was issued, with these parameters
OneGetWith(params) == Len(http) = 1 /\ http[1].params = params

(* C6 as stated: every get_directions call that passes validation issues    *)
(* exactly one GET with origin and destination as supplied, mode as         *)
(* supplied when a mode is supplied and "driving" when it is omitted, and   *)
(* the configured key.                                                      *)
C6_SuppliedModeVerbatim ==
    ValidDirectionsCall
    => OneGetWith([origin |-> Field(req.arguments, "origin"),
                   destination |-> Field(req.arguments, "destination"),
                   mode |-> IF IsString(Field(req.arguments, "mode"))
                            THEN Field(req.arguments, "mode")
                            ELSE Str(<<"driving">>),
                   key |-> Str(API_KEY)])

(* C6, amended: every get_directions call that passes validation issues     *)
(* exactly one GET with origin and destination as supplied, mode as         *)
(* supplied when a non-empty mode is supplied and "driving" when mode is    *)
(* omitted or the empty string, and the configured key.                     *)
C6_NonEmptyModeVerbatim ==
    ValidDirectionsCall
    => OneGetWith([origin |-> Field(req.arguments, "origin"),
                   destination |-> Field(req.arguments, "destination"),
                   mode |-> IF /\ IsString(Field(req.arguments, "mode"))
                               /\ Field(req.arguments, "mode").v # <<>>
                            THEN Field(req.arguments, "mode")
                            ELSE Str(<<"driving">>),
                   key |-> Str(API_KEY)])

\* a validated call with a mode of its own, sent upstream
C6_Witness ==
    /\ ValidDirectionsCall
    /\ Field(req.arguments, "mode") = Str(<<"walking">>)
    /\ Len(http) = 1
    /\ http[1].params.mode = Str(<<"walking">>)

----------------------------------------------------------------------------
\* the current request is a route_transit call that passed validation
ValidTransitCall ==
    /\ IsToolCall
    /\ req.server = "transit"
    /\ req.name = "route_transit"
    /\ TransitContract(req.arguments)

HasPlus(text) == \E i \in 1..Len(text) : text[i] = "+"

\* the start_time sent upstream is this text
SentStartTime(text) == Len(http) = 1 /\ http[1].params.start_time = Str(text)

(* C7 as stated: the start_time sent upstream is the literal                *)
(* 2024-02-11T12:00:00+09:00 when start_time is omitted, the supplied       *)
(* string unchanged when it contains '+', and the supplied string followed  *)
(* by +09:00 when it does not.                                              *)
C7_EverySuppliedStartTime ==
    ValidTransitCall
    => LET t == Field(req.arguments, "start_time") IN
       SentStartTime(IF IsAbsent(t) THEN <<"2024-02-11T12:00:00", "+", "09:00">>
                     ELSE IF HasPlus(t.v) THEN t.v
                     ELSE t.v \o <<"+", "09:00">>)

(* C7, amended: the start_time sent upstream is the literal                 *)
(* 2024-02-11T12:00:00+09:00 when start_time is omitted or the empty        *)
(* string, the supplied string unchanged when it contains '+', and the      *)
(* supplied string followed by +09:00 when it is non-empty and does not.    *)
C7_NonEmptyStartTime ==
    ValidTransitCall
    => LET t == Field(req.arguments, "start_time") IN
       SentStartTime(IF IsAbsent(t) \/ t.v = <<>>
                     THEN <<"2024-02-11T12:00:00", "+", "09:00">>
                     ELSE IF HasPlus(t.v) THEN t.v
                     ELSE t.v \o <<"+", "09:00">>)

\* a start_time without '+' was sent with the suffix
C7_Witness ==
    /\ ValidTransitCall
    /\ Field(req.arguments, "start_time") = Str(<<"2024-05-01T09:00:00">>)
    /\ SentStartTime(<<"2024-05-01T09:00:00", "+", "09:00">>)

----------------------------------------------------------------------------
(* C8: the transit response timezone-suffixing is idempotent: for every     *)
(* upstream body that the normalization returns a body for, applying it to  *)
(* that already-normalized body changes nothing.                            *)
C8_NormalizationIdempotent ==
    nv.stage = "twice" => nv.second = nv.first

\* the first application suffixed a time, the second was applied to that
C8_Witness ==
    /\ nv.stage = "twice"
    /\ nv.first.v # nv.body
    /\ nv.second.ok

----------------------------------------------------------------------------
\* the current request is a nearby_search call whose arguments carry a
\* location object with numeric lat and lng
NearbyCallWithLocation ==
    /\ IsToolCall
    /\ req.server = "places"
    /\ req.name = "nearby_search"
    /\ IsLocation(Field(req.arguments, "location"))

\* "<lat>,<lng>"
LatLngText(location) ==
    Str(<<ToString(Field(location, "lat").n), ",", ToString(Field(location, "lng").n)>>)

\* exactly one GET was issued and these are among its parameters
OneGetIncluding(params) ==
    /\ Len(http) = 1
    /\ \A k \in DOMAIN params :
          k \in DOMAIN http[1].params /\ http[1].params[k] = params[k]

(* C9 as stated: for every nearby_search call whose arguments carry a       *)
(* location with numeric lat and lng, the GET parameters are location       *)
(* "<lat>,<lng>", radius as supplied or 1000 when absent, type as supplied  *)
(* or undefined when absent, language as supplied or "ja" when absent.      *)
C9_SuppliedValuesVerbatim ==
    NearbyCallWithLocation
    => LET a == req.arguments IN
       OneGetIncluding(
          [location |-> LatLngText(Field(a, "location")),
           radius |-> IF IsAbsent(Field(a, "radius")) THEN Num(1000)
                      ELSE Field(a, "radius"),
           type |-> Field(a, "type"),
           language |-> IF IsAbsent(Field(a, "language")) THEN Str(<<"ja">>)
                        ELSE Field(a, "language")])

\* a supplied value that counts as false: null, 0, the empty string, false
IsFalsy(v) == v \in {Null, Num(0), Str(<<>>), Bool(FALSE)}

(* C9, amended: for every nearby_search call whose arguments carry a        *)
(* location with numeric lat and lng, the GET parameters are location       *)
(* "<lat>,<lng>", radius as supplied or 1000 when absent or falsy (null, 0, *)
(* the empty string, false), type as supplied or undefined when absent,     *)
(* language as supplied or "ja" when absent or falsy.                       *)
C9_NearbySearchParameters ==
    NearbyCallWithLocation
    => LET a == req.arguments IN
       OneGetIncluding(
          [location |-> LatLngText(Field(a, "location")),
           radius |-> IF IsAbsent(Field(a, "radius")) \/ IsFalsy(Field(a, "radius"))
                      THEN Num(1000)
                      ELSE Field(a, "radius"),
           type |-> Field(a, "type"),
           language |-> IF IsAbsent(Field(a, "language")) \/ IsFalsy(Field(a, "language"))
                        THEN Str(<<"ja">>)
                        ELSE Field(a, "language")])

\* a location with two different coordinates and nothing else was sent
C9_Witness ==
    /\ NearbyCallWithLocation
    /\ req.arguments = Obj([location |-> Obj([lat |-> Num(35), lng |-> Num(139)]),
                            radius |-> Undefined, type |-> Undefined,
                            language |-> Undefined])
    /\ OneGetIncluding([location |-> Str(<<"35", ",", "139">>), radius |-> Num(1000),
                        type |-> Undefined, language |-> Str(<<"ja">>)])

----------------------------------------------------------------------------
\* s without its first n elements
Drop(s, n) == SubSeq(s, n + 1, Len(s))

NoSlashIn(s) == \A i \in 1..Len(s) : s[i] # "/"

\* uri is directions://<origin>/<destination>
SplitsInto(uri, origin, destination) ==
    uri = <<"directions://">> \o origin \o <<"/">> \o destination

\* the URI has the shape directions://{origin}/{destination}: two segments
HasTemplateShape(uri) ==
    \E i \in 1..Len(uri) :
        /\ SplitsInto(uri, SubSeq(uri, 2, i - 1), Drop(uri, i))
        /\ SubSeq(uri, 2, i - 1) # <<>> /\ NoSlashIn(SubSeq(uri, 2, i - 1))
        /\ Drop(uri, i) # <<>> /\ NoSlashIn(Drop(uri, i))

\* the read issued exactly one GET for the decoded origin and destination,
\* with the key and with no mode
OneGetFor(origin, destination) ==
    /\ decodeURIComponent(origin).ok
    /\ decodeURIComponent(destination).ok
    /\ Len(http) = 1
    /\ http[1].params = [origin |-> Str(decodeURIComponent(origin).v),
                         destination |-> Str(decodeURIComponent(destination).v),
                         key |-> Str(API_KEY)]

(* C10 as stated: a read-resource request whose URI does not have the shape *)
(* directions://{origin}/{destination} ends in a protocol-level error with  *)
(* no HTTP request; one whose URI has that shape issues exactly one GET     *)
(* whose origin and destination are the URL-decoded first and second path   *)
(* segments, with the API key and with no mode parameter.                   *)
C10_TwoSegmentsDecoded ==
    IsResourceRead
    => IF HasTemplateShape(req.uri)
       THEN \A i \in 1..Len(req.uri) :
               SplitsInto(req.uri, SubSeq(req.uri, 2, i - 1), Drop(req.uri, i))
               => OneGetFor(SubSeq(req.uri, 2, i - 1), Drop(req.uri, i))
       ELSE EndedInError /\ http = <<>>

\* the place of the '/' at which the handler's pattern splits the URI: the
\* last one with a character of the origin before it and one after it
IsSplitPoint(uri, i) ==
    /\ i \in 3..(Len(uri) - 1)
    /\ uri[1] = "directions://"
    /\ uri[i] = "/"
    /\ NoSlashIn(SubSeq(uri, i + 1, Len(uri) - 1))

(* C10, amended: a read-resource request whose URI does not match           *)
(* directions://<one or more characters>/<one or more characters> ends in a *)
(* protocol-level invalid-request error with no HTTP request; one that      *)
(* matches is split at its last '/' that has a character after it, and      *)
(* ends in an error with no HTTP request when a part is no valid percent    *)
(* encoding, and otherwise issues exactly one GET whose origin and          *)
(* destination are the URL-decoded parts, with the API key and no mode.     *)
C10_ReadResourceRequest ==
    IsResourceRead
    => IF \E i \in 1..Len(req.uri) : IsSplitPoint(req.uri, i)
       THEN \A i \in 1..Len(req.uri) :
               IsSplitPoint(req.uri, i)
               => LET origin == SubSeq(req.uri, 2, i - 1)
                      destination == Drop(req.uri, i)
                  IN  IF decodeURIComponent(origin).ok /\ decodeURIComponent(destination).ok
                      THEN OneGetFor(origin, destination)
                      ELSE EndedInError /\ outcome.error = "URIError" /\ http = <<>>
       ELSE ProtocolError("InvalidRequest") /\ http = <<>>

\* an origin with an escaped and a plain '/' was decoded and sent
C10_Witness ==
    /\ IsResourceRead
    /\ req.uri = <<"directions://", "%", "2", "F", "/", "T">>
    /\ Len(http) = 1
    /\ http[1].params.origin = Str(<<"/">>)
    /\ http[1].params.destination = Str(<<"T">>)
    /\ "mode" \notin DOMAIN http[1].params

----------------------------------------------------------------------------
\* the body a successful tool call serializes: the upstream body, which the
\* transit server normalizes first
ReturnedBody ==
    IF req.server = "transit" THEN NormalizeResponse(upstream.data).v
    ELSE upstream.data

\* the text begins with the provider's "... API error: "
IsProviderErrorText(text) ==
    IsString(text) /\ text.v # <<>> /\ text.v[1] = Provider(req.server)

(* C11: every tool-result envelope a server returns holds exactly one       *)
(* content element of type text whose text is a string: the pretty-printed  *)
(* JSON of the upstream (transit: normalized) body with isError not set, or *)
(* a "<Provider> API error: ..." message with isError true.                 *)
C11_EnvelopeHoldsOneText ==
    (pc = "done" /\ outcome.kind = "result")
    => (/\ Len(outcome.content) = 1
        /\ DOMAIN outcome.content[1] = {"type", "text"}
        /\ outcome.content[1].type = "text"
        /\ IsString(outcome.content[1].text)
        /\ IF "isError" \in DOMAIN outcome
           THEN /\ outcome.isError = TRUE
                /\ upstream.status = "error"
                /\ IsProviderErrorText(outcome.content[1].text)
           ELSE /\ upstream.status = "ok"
                /\ outcome.content[1].text = Str(SerializeJSON(ReturnedBody, 0)))

\* a transit call returned the JSON text of a body that it had normalized
C11_Witness ==
    /\ pc = "done"
    /\ outcome.kind = "result"
    /\ "isError" \notin DOMAIN outcome
    /\ req.server = "transit"
    /\ ReturnedBody # upstream.data
    /\ outcome.content[1].text.v[1] = "{"

----------------------------------------------------------------------------
\* the requests the process has handled: those it has answered and the
\* one it is handling
Handled == past \cup (IF pc = "idle" THEN {} ELSE {Served})

(* C12: whatever requests a process has served before, failed ones          *)
(* included, it accepts the next request, its HTTP client configuration is  *)
(* as the constructor made it, and two requests with the same content get   *)
(* the same GET, and with the same upstream answer the same outcome,        *)
(* wherever in the sequence they are handled.                               *)
C12_EarlierRequestsLeaveNoTrace ==
    /\ axiosInstance = [s \in Servers |-> AxiosCreate(s, API_KEY)]
    /\ pc = "idle" => ENABLED SessionRequest
    /\ pc = "done" => ENABLED SessionReply
    /\ \A a \in Handled, b \in Handled :
        a.req = b.req
        => /\ a.http = b.http
           /\ (a.upstream = b.upstream /\ pc # "awaiting") => a.outcome = b.outcome

\* a request is answered with a result after the process had answered
\* the same request with the same result and, in between or before,
\* requests that ended in a protocol error and in an isError result
C12_Witness ==
    /\ pc = "done"
    /\ outcome.kind = "result"
    /\ "isError" \notin DOMAIN outcome
    /\ Len(http) = 1
    /\ Served \in past
    /\ \E p \in past : p.outcome.kind = "error"
    /\ \E p \in past : "isError" \in DOMAIN p.outcome

----------------------------------------------------------------------------
\* a time of an upstream body: absent or a string
PlainTime(v) == IsAbsent(v) \/ IsString(v)

\* a normalized time is the time itself or the time with "+09:00" appended
TimeKept(a, b) ==
    a = b \/ (IsString(a) /\ IsString(b) /\ b.v = a.v \o TimezoneSuffix)

\* objects with the same fields, equal but for from_time and to_time
MoveKept(m, n) ==
    \/ m = n
    \/ /\ m.tag = "object" /\ n.tag = "object"
       /\ DOMAIN m.f = DOMAIN n.f
       /\ \A k \in DOMAIN m.f :
            IF k \in {"from_time", "to_time"} THEN TimeKept(m.f[k], n.f[k])
            ELSE m.f[k] = n.f[k]

SectionsKept(a, b) ==
    \/ a = b
    \/ /\ a.tag = "array" /\ b.tag = "array"
       /\ Len(a.e) = Len(b.e)
       /\ \A i \in 1..Len(a.e) :
            \/ a.e[i] = b.e[i]
            \/ Get(a.e[i], "type") = S("move") /\ MoveKept(a.e[i], b.e[i])

ItemKept(a, b) ==
    \/ a = b
    \/ /\ a.tag = "object" /\ b.tag = "object"
       /\ DOMAIN a.f = DOMAIN b.f
       /\ \A k \in DOMAIN a.f \ {"summary", "sections"} : a.f[k] = b.f[k]
       /\ SectionsKept(Get(a, "sections"), Get(b, "sections"))
       /\ \/ Get(a, "summary") = Get(b, "summary")
          \/ /\ Get(a, "summary").tag = "object" /\ Get(b, "summary").tag = "object"
             /\ DOMAIN Get(a, "summary").f = {"move"}
             /\ DOMAIN Get(b, "summary").f = {"move"}
             /\ MoveKept(Get(Get(a, "summary"), "move"), Get(Get(b, "summary"), "move"))

\* the same body but for times with "+09:00" appended
BodyKept(a, b) ==
    \/ a = b
    \/ /\ a.tag = "object" /\ b.tag = "object"
       /\ DOMAIN a.f = {"items"} /\ DOMAIN b.f = {"items"}
       /\ a.f.items.tag = "array" /\ b.f.items.tag = "array"
       /\ Len(a.f.items.e) = Len(b.f.items.e)
       /\ \A i \in 1..Len(a.f.items.e) : ItemKept(a.f.items.e[i], b.f.items.e[i])

\* an item as the upstream documents it: an object whose summary.move and
\* sections, where present, are objects whose times are strings or absent
PlainItem(item) ==
    /\ item.tag = "object"
    /\ LET summary == Get(item, "summary")
           sections == Get(item, "sections")
       IN  /\ \/ IsAbsent(summary)
              \/ /\ summary.tag = "object"
                 /\ \/ IsAbsent(Get(summary, "move"))
                    \/ /\ Get(summary, "move").tag = "object"
                       /\ PlainTime(Get(Get(summary, "move"), "from_time"))
                       /\ PlainTime(Get(Get(summary, "move"), "to_time"))
           /\ \/ IsAbsent(sections)
              \/ /\ sections.tag = "array"
                 /\ \A i \in 1..Len(sections.e) :
                      /\ sections.e[i].tag = "object"
                      /\ PlainTime(Get(sections.e[i], "from_time"))
                      /\ PlainTime(Get(sections.e[i], "to_time"))

PlainBody(body) ==
    /\ body.tag = "object"
    /\ \/ IsAbsent(Get(body, "items"))
       \/ /\ Get(body, "items").tag = "array"
          /\ \A i \in 1..Len(Get(body, "items").e) : PlainItem(Get(body, "items").e[i])

(* C13: the transit normalization returns, for every upstream body, a body  *)
(* of the same shape: absent fields stay absent and only from_time and      *)
(* to_time of summary.move and of "move" sections may differ, by an         *)
(* appended "+09:00"; an item whose summary.move lacks from_time or to_time *)
(* is normalized with that field still absent, and a result is returned.    *)
C13_NormalizationKeepsShape ==
    (nv.stage = "once" /\ PlainBody(nv.body))
    => (nv.first.ok /\ BodyKept(nv.body, nv.first.v))

----------------------------------------------------------------------------
\* what the request does when it is the only one the server handles: the
\* GET requests it issues, and its outcome for the upstream's answer
AloneHttp(r) ==
    IF r.method = "tools/call"
    THEN LET step == CallToolStart(r.server, r.name, r.arguments)
         IN  IF step.next = "awaiting" THEN <<step.get>> ELSE <<>>
    ELSE LET step == ReadResourceStart(r.uri)
         IN  IF step.next = "awaiting" THEN <<step.get>> ELSE <<>>

AloneOutcome(r, up) ==
    IF up = NoUpstream
    THEN (IF r.method = "tools/call"
          THEN CallToolStart(r.server, r.name, r.arguments).outcome
          ELSE ReadResourceStart(r.uri).outcome)
    ELSE IF r.method = "tools/call" THEN CallToolResume(r.server, up)
    ELSE ReadResourceResume(r.uri, up)

(* C14: when calls are pipelined, each handler suspends at one point only,  *)
(* its upstream GET, the answers may come in any order, and each call      *)
(* issues the GET and has the outcome it would have had alone.              *)
C14_PipelinedCallsIndependent ==
    \A i \in DOMAIN calls :
        /\ Len(calls[i].http) <= 1
        /\ calls[i].http = AloneHttp(calls[i].req)
        /\ calls[i].state = "awaiting"
           => (Len(calls[i].http) = 1 /\ calls[i].outcome = NoOutcome)
        /\ calls[i].state # "awaiting"
           => /\ (calls[i].upstream = NoUpstream) = (calls[i].http = <<>>)
              /\ calls[i].outcome = AloneOutcome(calls[i].req, calls[i].upstream)

\* a resource read is still suspended when a tool call that arrived after
\* it has had its answer and returned its result
C14_Witness ==
    /\ Len(calls) = 2
    /\ calls[1].state = "awaiting"
    /\ calls[1].req.method = "resources/read"
    /\ calls[2].state = "answered"
    /\ calls[2].req.method = "tools/call"
    /\ calls[2].upstream.status = "ok"
    /\ calls[2].outcome.kind = "result"

----------------------------------------------------------------------------
Answered == {i \in DOMAIN calls : calls[i].state = "answered"}

InFlight == {i \in DOMAIN calls : calls[i].state = "awaiting"}

\* a step of the interrupt: the process leaves "running" by closing its
\* transport, exits only from there with code 0 and leaves the calls as
\* they are, and with the transport closed no further call is answered
InterruptStep ==
    /\ (process.state = "running" /\ process'.state # "running")
       => (process'.state = "closing" /\ process'.transport = "closed")
    /\ (process.state # "exited" /\ process'.state = "exited")
       => /\ process.state = "closing"
          /\ process.transport = "closed"
          /\ process'.exitCode = 0
          /\ calls' = calls
    /\ process.transport = "closed"
       => Cardinality({i \in DOMAIN calls' : calls'[i].state = "answered"})
            <= Cardinality(Answered)

(* C15: an interrupt received while the process runs closes the transport   *)
(* first and then leads to the exit with code 0; the exit never comes       *)
(* before the close, and it neither waits for the calls in flight nor is    *)
(* one of them answered after the close.                                    *)
C15_InterruptClosesThenExits ==
    /\ [][InterruptStep]_vars
    /\ [](process.state = "closing" => ENABLED Exit)
    /\ [](process.state = "exited"
          => (process.transport = "closed" /\ process.exitCode = 0))
    /\ (process.state = "closing") ~> (process.state = "exited")

\* the process has exited with code 0 while a call was in flight
C15_Witness ==
    /\ process.state = "exited"
    /\ process.exitCode = 0
    /\ process.transport = "closed"
    /\ InFlight # {}

----------------------------------------------------------------------------
\* the URIs a resources/list response has advertised
AdvertisedUris == {ResourceCatalog[i].uri : i \in DOMAIN ResourceCatalog}

(* C16: every resource URI that the directions server advertises is         *)
(* accepted by its read-resource operation: reading it is not rejected as   *)
(* an invalid URI and reaches the upstream GET.                             *)
C16_AdvertisedResourcesReadable ==
    (IsResourceRead /\ req.uri \in AdvertisedUris)
    => (~ProtocolError("InvalidRequest") /\ Len(http) = 1)

=============================================================================
